---- MODULE Spec2Model ----
(***************************************************************************)
(* A model of the two scripts of ts_helpers:                               *)
(*   - import_csv_to_sql.py: main and csv_to_table, run against a model of *)
(*     the database (one destination table, one transaction) and of the    *)
(*     source file (a header line and data rows);                          *)
(*   - ts_predictions.py: the loops of get_project_stats and of            *)
(*     get_or_request_predictions.                                         *)
(* Spec is the loader, SpecStats is get_project_stats and SpecPred is      *)
(* get_or_request_predictions.                                             *)
(***************************************************************************)
EXTENDS Integers, Sequences, FiniteSets, TLC

VARIABLES
    \* ---- import_csv_to_sql.py ----
    pc,          \* the statement main / csv_to_table is about to execute
    file,        \* the file at file_name
    runs,        \* how many times main has been started
    table0,      \* schema.tablename as it was when main started
    prev,        \* the previous run: whether it loaded, and the count it printed
    sameFile,    \* this run loads the file the previous run loaded
    conn,        \* main's local conn: "unbound", "open" or "closed"
    engine,      \* "live" or "disposed"
    table,       \* schema.tablename in the database (committed)
    txRows,      \* rows copied in the open transaction, not yet committed
    header,      \* csv_to_table's local header
    stmts,       \* the statements sent over conn in this run, in order
    new_file,    \* the file at file_name + '_tmp' written by this run
    copyErr,     \* the kind of DataError the first COPY raised, or "none"
    exc,         \* the exception in flight, or "none"
    raisedAt,    \* the statement that raised, or "none"
    hint,        \* main printed the "try the full filepath" message
    numRows,     \* num_rows as printed, -1 before
    \* ---- ts_predictions.py: get_project_stats ----
    spc, projects, metricArg, metric, si, passed,
    \* ---- ts_predictions.py: get_or_request_predictions ----
    ppc, models, retrain, mi, models_to_predict_on, retrain_jobs,
    project_dataset_map, uploads, predict_jobs

inputVars  == <<file, runs, table0, prev, sameFile>>
loaderVars == <<pc, file, runs, table0, prev, sameFile, conn, engine, table,
                txRows, header, stmts, new_file, copyErr, exc, raisedAt, hint, numRows>>
statsVars  == <<spc, projects, metricArg, metric, si, passed>>
predVars   == <<ppc, models, retrain, mi, models_to_predict_on, retrain_jobs,
                project_dataset_map, uploads, predict_jobs>>
vars       == <<loaderVars, statsVars, predVars>>

\* ------------------------------------------------------------------ bounds
MaxRows     == 2   \* data rows of a source file
MaxRuns     == 2   \* runs of main against the same destination table
MaxProjects == 3   \* projects given to get_project_stats
MaxModels   == 2   \* models given to get_or_request_predictions

SeqsUpTo(S, n) == UNION {[1..k -> S] : k \in 0..n}
Range(s) == {s[i] : i \in DOMAIN s}

\* ------------------------------------------------------- the source file
\* A header is what next(csv.reader(f)) returns for the first line: <<>> for a
\* blank line.  "a","a" repeats a column name.
Headers == {<< >>, <<"a">>, <<"a", "b">>, <<"a", "a">>}

\* CREATE TABLE rejects a column name given twice.
DuplicateColumn(hdr) == \E i, j \in 1..Len(hdr) : i # j /\ hdr[i] = hdr[j]

\* A data row, by what the database and pandas make of it:
\*   "ok"    as many fields as the header, bytes the database accepts
\*   "enc"   as many fields as the header, bytes that are not valid in the
\*           encoding: the database rejects them, Python cannot decode them
\*   "nul"   as many fields as the header, a NUL byte among them: Python decodes
\*           it, the database rejects it
\*   "short" fewer fields than the header (and not blank)
\*   "long"  one field more than the header
\* A table without columns takes every line, and a one-column line cannot be
\* short; a file with a blank header line, or with a column name given twice, is
\* modelled with plain rows only.
RowKinds(hdr) ==
    IF Len(hdr) = 0 \/ DuplicateColumn(hdr) THEN {"ok"}
    ELSE IF Len(hdr) = 1 THEN {"ok", "enc", "nul", "long"}
    ELSE {"ok", "enc", "nul", "short", "long"}

MissingFile == [exists |-> FALSE, hasHeader |-> FALSE, header |-> << >>, rows |-> << >>]
\* A file of zero bytes: there is no first line.
EmptyFile   == [exists |-> TRUE, hasHeader |-> FALSE, header |-> << >>, rows |-> << >>]
Files ==
    {MissingFile, EmptyFile} \cup
    UNION {{[exists |-> TRUE, hasHeader |-> TRUE, header |-> h, rows |-> r] :
                r \in SeqsUpTo(RowKinds(h), MaxRows)} : h \in Headers}

\* ---------------------------------------------------------- the database
NoTable == [exists |-> FALSE, cols |-> << >>, rows |-> 0]
\* What schema.tablename may be before the first run.
InitTables == {NoTable,
               [exists |-> TRUE, cols |-> <<[name |-> "b", type |-> "text"]>>, rows |-> 2]}

\* Every statement sent to the database, and the rewrite of the file, can fail for
\* a reason that is not in the data (the server is down, the disk is full): each
\* action below draws "fails" from BOOLEAN.  These are the exceptions of that kind.
EnvErrors == {"OperationalError", "OSError"}

\* DROP TABLE IF EXISTS.
DropTableKept(t) == t
DropTable(t) == NoTable

\* datatypes: one "col text" per header entry, in header order (line 63).
DataTypesReversed(hdr) ==
    [i \in 1..Len(hdr) |-> [name |-> hdr[Len(hdr) + 1 - i], type |-> "text"]]
DataTypes(hdr) == [i \in 1..Len(hdr) |-> [name |-> hdr[i], type |-> "text"]]

\* COPY ... CSV HEADER reads the rows after the first line, and stops at the first
\* row it cannot take: "encoding" for bytes it rejects, "format" for a row with
\* the wrong number of fields.  Both reach the caller as exc.DataError.
RECURSIVE CopyError(_)
CopyError(rows) ==
    IF rows = << >> THEN "none"
    ELSE IF Head(rows) \in {"enc", "nul"} THEN "encoding"
    ELSE IF Head(rows) \in {"short", "long"} THEN "format"
    ELSE CopyError(Tail(rows))

\* The rows a COPY that succeeds puts into the table: every line but the header.
CopyRows(rows) == Len(rows)

\* "commit": the rows of the transaction become the table's.
CommitRowsLost(t, n) == t
CommitRows(t, n) == [t EXCEPT !.rows = @ + n]

HasKind(rows, k) == \E i \in DOMAIN rows : rows[i] = k

\* pd.read_csv(file_name, dtype=str, engine='python') raises ParserError for a row
\* longer than the header, unless the first row is that long: then the first
\* column is taken as the index.
ParserError(rows) ==
    /\ rows # << >>
    /\ rows[1] # "long"
    /\ HasKind(rows, "long")

\* The data rows of the file read_csv(...).to_csv(new_filename, index=False)
\* writes under the header line: one per row read, undecodable bytes replaced, a
\* short row padded, the index column left out, a NUL byte written as read.
RewrittenRowsNoHeader(rows) ==
    [i \in 1..(Len(rows) - 1) |-> IF rows[i + 1] = "nul" THEN "nul" ELSE "ok"]
RewrittenRows(rows) == [i \in DOMAIN rows |-> IF rows[i] = "nul" THEN "nul" ELSE "ok"]

NoNewFile == [written |-> FALSE, rows |-> << >>]

\* ------------------------------------------------------------ the loader
\* An exception leaves csv_to_table; the connection rolls the transaction back.
Raise(e, at) ==
    /\ pc' = "except"
    /\ exc' = e
    /\ raisedAt' = at
    /\ txRows' = 0

\* conn = engine.connect()
Connect ==
    /\ pc = "connect"
    /\ \E fails \in BOOLEAN :
       IF fails
       THEN /\ Raise("OperationalError", "connect")
            /\ UNCHANGED conn
       ELSE /\ conn' = "open"
            /\ pc' = "drop"
            /\ UNCHANGED <<exc, raisedAt, txRows>>
    /\ UNCHANGED <<inputVars, engine, table, header, stmts, new_file, copyErr,
                   hint, numRows>>

\* DROP TABLE IF EXISTS schema.tablename (autocommitted)
Drop ==
    /\ pc = "drop"
    /\ stmts' = Append(stmts, "DROP")
    /\ \E fails \in BOOLEAN :
       IF fails
       THEN /\ Raise("OperationalError", "drop")
            /\ UNCHANGED table
       ELSE /\ table' = DropTable(table)
            /\ pc' = "header"
            /\ UNCHANGED <<exc, raisedAt, txRows>>
    /\ UNCHANGED <<inputVars, conn, engine, header, new_file, copyErr, hint, numRows>>

\* with open(file_name, 'r') as f: header = next(csv.reader(f))
\* Reading the first line decodes a block of the file: undecodable bytes raise
\* UnicodeDecodeError when they lie in that block.
ReadHeader ==
    /\ pc = "header"
    /\ \E inFirstBlock \in BOOLEAN :
       IF ~file.exists
       THEN /\ Raise("FileNotFoundError", "header")
            /\ UNCHANGED header
       ELSE IF ~file.hasHeader
       THEN /\ Raise("StopIteration", "header")
            /\ UNCHANGED header
       ELSE IF inFirstBlock /\ HasKind(file.rows, "enc")
       THEN /\ Raise("UnicodeDecodeError", "header")
            /\ UNCHANGED header
       ELSE /\ header' = file.header
            /\ pc' = "create"
            /\ UNCHANGED <<exc, raisedAt, txRows>>
    /\ UNCHANGED <<inputVars, conn, engine, table, stmts, new_file, copyErr,
                   hint, numRows>>

\* CREATE TABLE schema.tablename (datatypes) (autocommitted)
Create ==
    /\ pc = "create"
    /\ stmts' = Append(stmts, "CREATE")
    /\ \E fails \in BOOLEAN :
       IF fails
       THEN /\ Raise("OperationalError", "create")
            /\ UNCHANGED table
       ELSE IF DuplicateColumn(header) \/ table.exists
       THEN /\ Raise("ProgrammingError", "create")
            /\ UNCHANGED table
       ELSE /\ table' = [exists |-> TRUE, cols |-> DataTypes(header), rows |-> 0]
            /\ pc' = "copy"
            /\ UNCHANGED <<exc, raisedAt, txRows>>
    /\ UNCHANGED <<inputVars, conn, engine, header, new_file, copyErr, hint, numRows>>

\* COPY schema.tablename FROM file_name, inside try ... except exc.DataError
Copy ==
    /\ pc = "copy"
    /\ stmts' = Append(stmts, "COPY file")
    /\ \E fails \in BOOLEAN :
       IF fails
       THEN /\ Raise("OperationalError", "copy")
            /\ UNCHANGED copyErr
       ELSE IF CopyError(file.rows) # "none"
       THEN \* exc.DataError, of either kind: the except branch is entered
            /\ copyErr' = CopyError(file.rows)
            /\ pc' = "rewrite"
            /\ txRows' = 0
            /\ UNCHANGED <<exc, raisedAt>>
       ELSE /\ txRows' = CopyRows(file.rows)
            /\ pc' = "commit"
            /\ UNCHANGED <<exc, raisedAt, copyErr>>
    /\ UNCHANGED <<inputVars, conn, engine, table, header, new_file, hint, numRows>>

\* conn.execute("commit") of the try block
Commit ==
    /\ pc = "commit"
    /\ stmts' = Append(stmts, "COMMIT")
    /\ \E fails \in BOOLEAN :
       IF fails
       THEN /\ Raise("OperationalError", "commit")
            /\ UNCHANGED table
       ELSE /\ table' = CommitRows(table, txRows)
            /\ txRows' = 0
            /\ pc' = "count"
            /\ UNCHANGED <<exc, raisedAt>>
    /\ UNCHANGED <<inputVars, conn, engine, header, new_file, copyErr, hint, numRows>>

\* pd.read_csv(file_name, dtype=str, engine='python').to_csv(new_filename, index=False)
\* Python's csv module raises on a NUL byte before 3.11 (pandas makes it a
\* ParserError) and reads it from 3.11 on.
Rewrite ==
    /\ pc = "rewrite"
    /\ \E fails, nulRejected \in BOOLEAN :
       IF fails
       THEN /\ Raise("OSError", "rewrite")
            /\ UNCHANGED new_file
       ELSE IF ParserError(file.rows) \/ (nulRejected /\ HasKind(file.rows, "nul"))
       THEN /\ Raise("ParserError", "rewrite")
            /\ UNCHANGED new_file
       ELSE /\ new_file' = [written |-> TRUE, rows |-> RewrittenRows(file.rows)]
            /\ pc' = "copy2"
            /\ UNCHANGED <<exc, raisedAt, txRows>>
    /\ UNCHANGED <<inputVars, conn, engine, table, header, stmts, copyErr,
                   hint, numRows>>

\* A second COPY that, when it fails, goes back to the rewrite and tries again.
Copy2Retry ==
    /\ pc = "copy2"
    /\ stmts' = Append(stmts, "COPY file_tmp")
    /\ \E fails \in BOOLEAN :
       IF fails \/ CopyError(new_file.rows) # "none"
       THEN /\ pc' = "rewrite"
            /\ txRows' = 0
       ELSE /\ txRows' = CopyRows(new_file.rows)
            /\ pc' = "commit2"
    /\ UNCHANGED <<inputVars, conn, engine, table, header, new_file, copyErr,
                   hint, numRows, exc, raisedAt>>

\* COPY schema.tablename FROM new_filename, in the except branch: nothing catches
Copy2 ==
    /\ pc = "copy2"
    /\ stmts' = Append(stmts, "COPY file_tmp")
    /\ \E fails \in BOOLEAN :
       IF fails
       THEN Raise("OperationalError", "copy2")
       ELSE IF CopyError(new_file.rows) # "none"
       THEN Raise("DataError", "copy2")
       ELSE /\ txRows' = CopyRows(new_file.rows)
            /\ pc' = "commit2"
            /\ UNCHANGED <<exc, raisedAt>>
    /\ UNCHANGED <<inputVars, conn, engine, table, header, new_file, copyErr,
                   hint, numRows>>

\* conn.execute("commit") of the except branch
Commit2 ==
    /\ pc = "commit2"
    /\ stmts' = Append(stmts, "COMMIT")
    /\ \E fails \in BOOLEAN :
       IF fails
       THEN /\ Raise("OperationalError", "commit2")
            /\ UNCHANGED table
       ELSE /\ table' = CommitRows(table, txRows)
            /\ txRows' = 0
            /\ pc' = "count"
            /\ UNCHANGED <<exc, raisedAt>>
    /\ UNCHANGED <<inputVars, conn, engine, header, new_file, copyErr, hint, numRows>>

\* num_rows = SELECT count(*) FROM schema.tablename; print
Count ==
    /\ pc = "count"
    /\ stmts' = Append(stmts, "SELECT")
    /\ \E fails \in BOOLEAN :
       IF fails
       THEN /\ Raise("OperationalError", "count")
            /\ UNCHANGED numRows
       ELSE /\ numRows' = table.rows + txRows
            /\ pc' = "close"
            /\ UNCHANGED <<exc, raisedAt, txRows>>
    /\ UNCHANGED <<inputVars, conn, engine, table, header, new_file, copyErr, hint>>

\* conn.close() at the end of csv_to_table; the call returns
Close ==
    /\ pc = "close"
    /\ conn' = "closed"
    /\ txRows' = 0
    /\ pc' = "finally"
    /\ UNCHANGED <<inputVars, engine, table, header, stmts, new_file, copyErr,
                   exc, raisedAt, hint, numRows>>

\* main: except FileNotFoundError: print the hint.  Any other exception stays in flight.
HandleExcept ==
    /\ pc = "except"
    /\ IF exc = "FileNotFoundError"
       THEN /\ hint' = TRUE
            /\ exc' = "none"
       ELSE UNCHANGED <<hint, exc>>
    /\ pc' = "finally"
    /\ UNCHANGED <<inputVars, conn, engine, table, txRows, header, stmts, new_file,
                   copyErr, raisedAt, numRows>>

\* main: finally: conn.close(); engine.dispose().  With conn never bound, conn.close()
\* raises UnboundLocalError and engine.dispose() is not reached.
Finally ==
    /\ pc = "finally"
    /\ IF conn = "unbound"
       THEN /\ exc' = "UnboundLocalError"
            /\ UNCHANGED <<conn, engine>>
       ELSE /\ conn' = "closed"
            /\ engine' = "disposed"
            /\ UNCHANGED exc
    /\ txRows' = 0
    /\ pc' = "exit"
    /\ UNCHANGED <<inputVars, table, header, stmts, new_file, copyErr, raisedAt,
                   hint, numRows>>

\* csv_to_table returned: no statement of this run raised.
Completed == pc \in {"finally", "exit"} /\ raisedAt = "none"

\* main is started again, on the same destination table.
NewRun ==
    /\ pc = "exit"
    /\ runs < MaxRuns
    /\ runs' = runs + 1
    /\ file' \in Files
    /\ sameFile' = (file' = file)
    /\ prev' = [loaded |-> Completed, count |-> IF Completed THEN numRows ELSE 0]
    /\ table0' = table
    /\ pc' = "connect"
    /\ conn' = "unbound"
    /\ engine' = "live"
    /\ txRows' = 0
    /\ header' = << >>
    /\ stmts' = << >>
    /\ new_file' = NoNewFile
    /\ copyErr' = "none"
    /\ exc' = "none"
    /\ raisedAt' = "none"
    /\ hint' = FALSE
    /\ numRows' = -1
    /\ UNCHANGED table

StatsIdle ==
    /\ spc = "idle" /\ projects = << >> /\ metricArg = "None" /\ metric = "None"
    /\ si = 1 /\ passed = << >>

PredIdle ==
    /\ ppc = "idle" /\ models = << >> /\ retrain = FALSE /\ mi = 1
    /\ models_to_predict_on = << >> /\ retrain_jobs = << >>
    /\ project_dataset_map = {} /\ uploads = << >> /\ predict_jobs = << >>

LoaderInit ==
    /\ pc = "connect"
    /\ file \in Files
    /\ runs = 1
    /\ table \in InitTables
    /\ table0 = table
    /\ prev = [loaded |-> FALSE, count |-> 0]
    /\ sameFile = FALSE
    /\ conn = "unbound"
    /\ engine = "live"
    /\ txRows = 0
    /\ header = << >>
    /\ stmts = << >>
    /\ new_file = NoNewFile
    /\ copyErr = "none"
    /\ exc = "none"
    /\ raisedAt = "none"
    /\ hint = FALSE
    /\ numRows = -1

Init == LoaderInit /\ StatsIdle /\ PredIdle

Next ==
    \/ (Connect /\ UNCHANGED <<statsVars, predVars>>)
    \/ (Drop /\ UNCHANGED <<statsVars, predVars>>)
    \/ (ReadHeader /\ UNCHANGED <<statsVars, predVars>>)
    \/ (Create /\ UNCHANGED <<statsVars, predVars>>)
    \/ (Copy /\ UNCHANGED <<statsVars, predVars>>)
    \/ (Commit /\ UNCHANGED <<statsVars, predVars>>)
    \/ (Rewrite /\ UNCHANGED <<statsVars, predVars>>)
    \/ (Copy2 /\ UNCHANGED <<statsVars, predVars>>)
    \/ (Commit2 /\ UNCHANGED <<statsVars, predVars>>)
    \/ (Count /\ UNCHANGED <<statsVars, predVars>>)
    \/ (Close /\ UNCHANGED <<statsVars, predVars>>)
    \/ (HandleExcept /\ UNCHANGED <<statsVars, predVars>>)
    \/ (Finally /\ UNCHANGED <<statsVars, predVars>>)
    \/ (NewRun /\ UNCHANGED <<statsVars, predVars>>)

Spec == Init /\ [][Next]_vars

\* ------------------------------------------ ts_predictions.get_project_stats
Metrics == {"RMSE", "MAE"}
\* A project, by what the loop reads of it: its id and its own metric.
ProjectLists ==
    UNION {{[i \in 1..k |-> [id |-> i, metric |-> ms[i]]] : ms \in [1..k -> Metrics]} :
               k \in 0..MaxProjects}

StatsInit ==
    /\ spc = "loop"
    /\ projects \in ProjectLists
    /\ metricArg \in Metrics \cup {"None"}
    /\ metric = metricArg
    /\ si = 1
    /\ passed = << >>

\* One pass of "for i, p in enumerate(projects)": the metric is defaulted by
\* assigning to the function's own variable, then handed to
\* get_top_models_from_projects([p], n_models=1, metric=metric, ...).
StatsIter ==
    /\ spc = "loop"
    /\ si <= Len(projects)
    /\ metric' = IF metric = "None" THEN projects[si].metric ELSE metric
    /\ passed' = Append(passed, [project |-> projects[si].id, metric |-> metric'])
    /\ si' = si + 1
    /\ UNCHANGED <<spc, projects, metricArg>>

\* stats['Series'] = ...; return stats
StatsReturn ==
    /\ spc = "loop"
    /\ si > Len(projects)
    /\ spc' = "returned"
    /\ UNCHANGED <<projects, metricArg, metric, si, passed>>

LoaderIdle ==
    /\ pc = "idle" /\ file = MissingFile /\ runs = 0
    /\ table0 = NoTable /\ prev = [loaded |-> FALSE, count |-> 0] /\ sameFile = FALSE
    /\ conn = "unbound" /\ engine = "live" /\ table = NoTable /\ txRows = 0
    /\ header = << >> /\ stmts = << >> /\ new_file = NoNewFile /\ copyErr = "none"
    /\ exc = "none" /\ raisedAt = "none" /\ hint = FALSE /\ numRows = -1

InitStats == LoaderIdle /\ StatsInit /\ PredIdle

NextStats ==
    \/ (StatsIter /\ UNCHANGED <<loaderVars, predVars>>)
    \/ (StatsReturn /\ UNCHANGED <<loaderVars, predVars>>)

SpecStats == InitStats /\ [][NextStats]_vars

\* --------------------------------- ts_predictions.get_or_request_predictions
ProjectIds == {1, 2}
\* A model, by what the loop reads of it: its project, whether project_stats
\* holds series for it, whether scoring_df holds rows of those series, and whether
\* request_frozen_datetime_model raises JobAlreadyRequested for it.  A model's id
\* is its place in the list.
ModelRecords ==
    [project : ProjectIds, hasSeries : BOOLEAN, hasRows : BOOLEAN, requested : BOOLEAN]
ModelLists == SeqsUpTo(ModelRecords, MaxModels)

PredInit ==
    /\ ppc = "models"
    /\ models \in ModelLists
    /\ retrain \in BOOLEAN
    /\ mi = 1
    /\ models_to_predict_on = << >>
    /\ retrain_jobs = << >>
    /\ project_dataset_map = {}
    /\ uploads = << >>
    /\ predict_jobs = << >>

\* models_to_predict_on after "for job in retrain_jobs: append(job.get_result...)".
RECURSIVE AppendResults(_, _)
AppendResults(mtp, jobs) ==
    IF jobs = << >> THEN mtp
    ELSE AppendResults(Append(mtp, [model |-> Head(jobs), kind |-> "retrained"]),
                       Tail(jobs))

\* One pass of "for m in models" (lines 213-277), the loop over retrain_jobs at
\* its end included: it is indented into the model loop.
ModelIter ==
    /\ ppc = "models"
    /\ mi <= Len(models)
    /\ mi' = mi + 1
    /\ LET m == models[mi] IN
       IF ~m.hasSeries \/ ~m.hasRows
       THEN \* continue
            UNCHANGED <<models_to_predict_on, retrain_jobs, project_dataset_map, uploads>>
       ELSE LET jobs == IF retrain /\ ~m.requested
                        THEN Append(retrain_jobs, mi) ELSE retrain_jobs
                mtp  == IF retrain /\ ~m.requested
                        THEN models_to_predict_on
                        ELSE Append(models_to_predict_on,
                                    [model |-> mi, kind |-> "given"])
            IN  /\ IF m.project \notin project_dataset_map
                   THEN /\ project_dataset_map' = project_dataset_map \cup {m.project}
                        /\ uploads' = Append(uploads, m.project)
                   ELSE UNCHANGED <<project_dataset_map, uploads>>
                /\ retrain_jobs' = jobs
                /\ models_to_predict_on' = AppendResults(mtp, jobs)
    /\ UNCHANGED <<ppc, models, retrain, predict_jobs>>

\* "for model in models_to_predict_on: predict_jobs.append(model.request_predictions(
\* project_dataset_map[model.project_id]))", the results collected and returned.
RequestPredictions ==
    /\ ppc = "models"
    /\ mi > Len(models)
    /\ predict_jobs' = [i \in DOMAIN models_to_predict_on |->
                          [model   |-> models_to_predict_on[i].model,
                           dataset |-> models[models_to_predict_on[i].model].project]]
    /\ ppc' = "returned"
    /\ UNCHANGED <<models, retrain, mi, models_to_predict_on, retrain_jobs,
                   project_dataset_map, uploads>>

InitPred == LoaderIdle /\ StatsIdle /\ PredInit

NextPred ==
    \/ (ModelIter /\ UNCHANGED <<loaderVars, statsVars>>)
    \/ (RequestPredictions /\ UNCHANGED <<loaderVars, statsVars>>)

SpecPred == InitPred /\ [][NextPred]_vars

\* ============================================================== properties
IsCopy(s) == s \in {"COPY file", "COPY file_tmp"}
CopyStmts == SelectSeq(stmts, IsCopy)
InFallback == pc \in {"rewrite", "copy2", "commit2"}
\* The rows of the file the COPY that succeeded read.
CopiedRows == IF new_file.written THEN new_file.rows ELSE file.rows

\* C1: whenever csv_to_table completes for a file whose header has k >= 1 columns,
\* the destination table exists with exactly the header's columns, in header
\* order, each of type text, and holds as many rows as the copied file has lines
\* after its header; that number is the count printed.
C1_LoadedTableMatchesFile ==
    (Completed /\ Len(file.header) >= 1) =>
        /\ table.exists
        /\ Len(table.cols) = Len(file.header)
        /\ \A i \in DOMAIN table.cols :
              table.cols[i].name = file.header[i] /\ table.cols[i].type = "text"
        /\ table.rows = Len(CopiedRows)
        /\ numRows = Len(CopiedRows)

C1_Witness ==
    /\ pc = "exit" /\ Completed
    /\ file.header = <<"a", "b">> /\ Len(file.rows) = 2
    /\ table0.exists

\* C2 (as claimed): with no file at file_name, main prints the file-not-found
\* hint, no DROP TABLE was issued and the destination table is as it was before
\* the run.
C2_MissingFileLeavesTable ==
    (pc = "exit" /\ ~file.exists /\ raisedAt \notin {"connect", "drop"}) =>
        /\ hint
        /\ "DROP" \notin Range(stmts)
        /\ table = table0

\* C2 (amended): with no file at file_name, main prints the file-not-found hint
\* and ends without an exception; DROP TABLE IF EXISTS is the one statement that
\* was issued, so the destination table no longer exists, and no CREATE and no
\* COPY was issued.
C2_MissingFileDropsTable ==
    (pc = "exit" /\ ~file.exists /\ raisedAt \notin {"connect", "drop"}) =>
        /\ hint
        /\ exc = "none"
        /\ stmts = <<"DROP">>
        /\ ~table.exists

C2_Witness == pc = "exit" /\ ~file.exists /\ hint /\ table0.exists

\* C3: whenever main ends, the connection is closed and the engine disposed, and
\* the finally block raised nothing.
C3_AlwaysReleased ==
    pc = "exit" =>
        /\ conn = "closed"
        /\ engine = "disposed"
        /\ exc # "UnboundLocalError"

\* C4: when the first COPY fails with a data error that is not about encoding,
\* the fallback is not entered: the file is not rewritten and no second COPY is
\* issued.
C4_FormatErrorPropagates ==
    copyErr = "format" =>
        /\ ~InFallback
        /\ ~new_file.written
        /\ "COPY file_tmp" \notin Range(stmts)

\* C5: one call issues at most two COPY statements, the first from file_name and
\* the second from file_name + '_tmp'; and an error raised in the fallback (the
\* rewrite, the second COPY, its commit) has left csv_to_table and is still in
\* flight when main ends: nothing caught it, nothing was retried.
C5_FallbackAtMostOnce ==
    /\ CopyStmts \in {<< >>, <<"COPY file">>, <<"COPY file", "COPY file_tmp">>}
    /\ raisedAt \in {"rewrite", "copy2", "commit2"} =>
          /\ pc \in {"except", "finally", "exit"}
          /\ exc \notin {"none", "FileNotFoundError"}
          /\ ~hint
          /\ numRows = -1

C5_Witness ==
    /\ pc = "exit" /\ raisedAt = "copy2" /\ exc = "DataError"
    /\ CopyStmts = <<"COPY file", "COPY file_tmp">>

C8_EmptyHeaderFailsFast ==
    (file.exists /\ (~file.hasHeader \/ file.header = << >>)) =>
        /\ "CREATE" \notin Range(stmts)
        /\ CopyStmts = << >>
        /\ ~InFallback

\* C9: called with metric=None, get_project_stats hands get_top_models_from_projects
\* each project's own metric.
C9_OwnMetricPerProject ==
    metricArg = "None" =>
        \A i \in DOMAIN passed : passed[i].metric = projects[i].metric

\* C10: when get_or_request_predictions returns, every given model that has series
\* and rows to score stands exactly once in models_to_predict_on and has exactly
\* one prediction request, and no project's dataset was uploaded twice.
C10_OneRequestPerModel ==
    ppc = "returned" =>
        /\ \A i \in DOMAIN models :
              (models[i].hasSeries /\ models[i].hasRows) =>
                  /\ Cardinality({j \in DOMAIN models_to_predict_on :
                                     models_to_predict_on[j].model = i}) = 1
                  /\ Cardinality({j \in DOMAIN predict_jobs :
                                     predict_jobs[j].model = i}) = 1
        /\ \A j, k \in DOMAIN uploads : uploads[j] = uploads[k] => j = k

====
